---- MODULE Spec2Model ----
(***************************************************************************)
(* Model of meilizet's document core (src/src/document.rs), of the batch   *)
(* importer (src/src/main.rs) and of the interactive query loop            *)
(* (src/src/interactive.rs).                                               *)
(*                                                                         *)
(* A string is a sequence of characters; a character is a one-token        *)
(* string.  "zw" stands for a character of display width 0 (U+200B, a tab, *)
(* any control character): unicode_width's UnicodeWidthStr::width sums the *)
(* display widths of the characters, so a non-empty string may have width  *)
(* 0.  A YAML/JSON value is a record tagged by kind.                       *)
(***************************************************************************)
EXTENDS Integers, Sequences, FiniteSets, TLC

VARIABLES
    input,      \* the argument of the construction: a note file or a legacy record
    doc,        \* the Document held by the caller
    res,        \* how the construction ended: "none", "ok", "err", "panic"
    out,        \* the result of the last Serialize / Display / deserialization
    files,      \* main: the entries yielded by glob_files
    idx,        \* main: number of entries the for loop has taken
    pc,         \* main: "loop", "done", "panic" (process aborted), "senderr" (main returned Err)
    posted,     \* main: the payloads sent to the index, in order
    reported,   \* main: the indexes of the entries reported on stderr
    app,        \* query: the TerminalApp
    apc,        \* query: "run", "exit" (returned Ok), "failed" (bailed), "panic"
    build,      \* query: "debug" (overflow checks on) or "release" (wrapping)
    ret,        \* query: the ids returned by app.get_selected()
    last        \* query: what the latest turn of the loop did with its request

vars == <<input, doc, res, out, files, idx, pc, posted, reported, app, apc, build, ret,
          last>>

docVars == <<input, doc, res, out>>
mainVars == <<files, idx, pc, posted, reported>>
appVars == <<app, apc, build, ret, last>>

(***************************************************************************)
(* Bounds of the model.                                                    *)
(***************************************************************************)
MaxLen == 2     \* longest string drawn for a free-text metadata field
MaxList == 2    \* longest list drawn for tags / authors
MaxUuid == 2    \* number of distinct values UuidB64::new() is allowed to return
MaxFiles == 3   \* longest batch handed to the importer
MaxInput == 2   \* characters held by the two input boxes together
MaxHits == 2    \* longest hit list a response carries
MaxUnder == 1   \* Backspace keys followed on an empty input box

(***************************************************************************)
(* Strings and display width.                                              *)
(***************************************************************************)
Chars == {"a", "zw"}

CharWidth(c) == IF c = "zw" THEN 0 ELSE 1

RECURSIVE width(_)
width(s) == IF s = <<>> THEN 0 ELSE CharWidth(Head(s)) + width(Tail(s))

SeqsUpTo(S, n) == UNION {[1..k -> S] : k \in 0..n}

Strs == SeqsUpTo(Chars, MaxLen)

Items == {<<"a">>, <<"b">>}

Lists == SeqsUpTo(Items, MaxList)

(***************************************************************************)
(* YAML / JSON values.                                                     *)
(***************************************************************************)
Absent == [kind |-> "absent"]
YStr(s) == [kind |-> "str", s |-> s]
YSeq(l) == [kind |-> "seq", items |-> l]
YInt(n) == [kind |-> "int", n |-> n]
YNull == [kind |-> "null"]
YBool == [kind |-> "bool"]
YMap == [kind |-> "map"]
YDate(e) == [kind |-> "date", epoch |-> e]

Ok(v) == [ok |-> TRUE, val |-> v]
Err(e) == [ok |-> FALSE, val |-> e]

(***************************************************************************)
(* crate::date (not part of the sources at hand): several textual          *)
(* encodings of an instant parse to one canonical epoch value; the         *)
(* canonical value itself is accepted back; anything else is an error.     *)
(***************************************************************************)
DateTexts == {"2021-01-02", "2021-01-02T00:00:00Z", "2021-01-03", "not a date"}

Date_from_str(t) ==
    CASE t = "2021-01-02" -> Ok(18629)
      [] t = "2021-01-02T00:00:00Z" -> Ok(18629)
      [] t = "2021-01-03" -> Ok(18630)
      [] OTHER -> Err("DateParseError")

date_deserializer(v) ==
    CASE v.kind = "date" -> Ok(v.epoch)
      [] v.kind = "str" -> Date_from_str(v.s)
      [] OTHER -> Err("DateParseError")

Date_fmt(e) ==
    CASE e = 18629 -> "2021-01-02"
      [] e = 18630 -> "2021-01-03"
      [] OTHER -> "1970-01-01"

(***************************************************************************)
(* UuidB64::new().to_string(): a random (version 4) identifier rendered    *)
(* as non-empty base64 text, every character of display width 1.           *)
(***************************************************************************)
UuidPool == 1..MaxUuid

UuidText(k) == <<"u", ToString(k)>>

(***************************************************************************)
(* The Document record and its default (Document::new).                    *)
(***************************************************************************)
SerializationTypes == {"Storage", "Disk", "Human"}

DefaultDocument ==
    [id |-> <<>>, parentid |-> <<>>, authors |-> <<>>, body |-> <<>>,
     serialization_type |-> "Storage", date |-> 0, title |-> <<>>,
     background_img |-> <<>>, links |-> <<>>, slug |-> <<>>, subtitle |-> <<>>,
     tags |-> <<>>, weight |-> 0, writes |-> 0, views |-> 0, filename |-> <<>>]

(***************************************************************************)
(* A metadata mapping: one value per key the Document reads, Absent when   *)
(* the key is not given.  authorsKey / tagsKey record under which of the   *)
(* accepted names (the field name or its serde alias) the value was given. *)
(***************************************************************************)
EmptyMeta ==
    [id |-> Absent, parentid |-> Absent, authorsKey |-> "authors", authors |-> Absent,
     body |-> Absent, date |-> Absent, title |-> Absent, background_img |-> Absent,
     links |-> Absent, slug |-> Absent, subtitle |-> Absent, tagsKey |-> "tags",
     tags |-> Absent, weight |-> Absent, writes |-> Absent, views |-> Absent,
     filename |-> Absent]

\* serde's String: a string scalar; with #[serde(default)] a missing key is "".
de_string_default(v) ==
    CASE v.kind = "absent" -> Ok(<<>>)
      [] v.kind = "str" -> Ok(v.s)
      [] OTHER -> Err("invalid type: expected a string")

\* serde's String without default: a missing key is an error.
de_string_required(v) ==
    CASE v.kind = "str" -> Ok(v.s)
      [] v.kind = "absent" -> Err("missing field")
      [] OTHER -> Err("invalid type: expected a string")

\* serde's Vec<String> with #[serde(default)]: only a sequence is accepted.
de_vec_default(v) ==
    CASE v.kind = "absent" -> Ok(<<>>)
      [] v.kind = "seq" -> Ok(v.items)
      [] OTHER -> Err("invalid type: expected a sequence")

\* serde's integers with #[serde(default)].
de_int_default(v) ==
    CASE v.kind = "absent" -> Ok(0)
      [] v.kind = "int" -> Ok(v.n)
      [] OTHER -> Err("invalid type: expected an integer")

\* StringOrVec: visit_str wraps, visit_seq passes through, every other
\* visit_* keeps serde's default, which is an invalid-type error.
string_or_list_stringWrapDropped(v) ==
    CASE v.kind = "str" -> Ok(<<>>)
      [] v.kind = "seq" -> Ok(v.items)
      [] OTHER -> Err("invalid type: expected string or list of strings")

string_or_list_string(v) ==
    CASE v.kind = "str" -> Ok(<<v.s>>)
      [] v.kind = "seq" -> Ok(v.items)
      [] OTHER -> Err("invalid type: expected string or list of strings")

\* #[serde(default)] on tags: the deserializer only runs when the key is given.
de_tags(v) == IF v.kind = "absent" THEN Ok(<<>>) ELSE string_or_list_string(v)

\* date has deserialize_with and no default: a missing key is an error.
de_date(v) == IF v.kind = "absent" THEN Err("missing field") ELSE date_deserializer(v)

\* #[derive(Deserialize)] for Document: every field must deserialize.
DeserializeDocument(m) ==
    LET id == de_string_default(m.id)
        parentid == de_string_default(m.parentid)
        authors == de_vec_default(m.authors)
        body == de_string_default(m.body)
        date == de_date(m.date)
        title == de_string_required(m.title)
        background_img == de_string_default(m.background_img)
        links == de_vec_default(m.links)
        slug == de_string_default(m.slug)
        subtitle == de_string_default(m.subtitle)
        tags == de_tags(m.tags)
        weight == de_int_default(m.weight)
        writes == de_int_default(m.writes)
        views == de_int_default(m.views)
        filename == de_string_default(m.filename)
        allOk == /\ id.ok /\ parentid.ok /\ authors.ok /\ body.ok /\ date.ok
                 /\ title.ok /\ background_img.ok /\ links.ok /\ slug.ok
                 /\ subtitle.ok /\ tags.ok /\ weight.ok /\ writes.ok /\ views.ok
                 /\ filename.ok
    IN  IF ~allOk
        THEN Err("Error reading yaml")
        ELSE Ok([id |-> id.val, parentid |-> parentid.val, authors |-> authors.val,
                 body |-> body.val, serialization_type |-> "Storage",
                 date |-> date.val, title |-> title.val,
                 background_img |-> background_img.val, links |-> links.val,
                 slug |-> slug.val, subtitle |-> subtitle.val, tags |-> tags.val,
                 weight |-> weight.val, writes |-> writes.val, views |-> views.val,
                 filename |-> filename.val])

(***************************************************************************)
(* Document::parse_file.  A note file is what fs::read_to_string and       *)
(* frontmatter::parse_and_find_content make of it:                         *)
(*   fm = "unreadable"  the file cannot be read (the ? returns the error), *)
(*   fm = "scanerror"   a delimited block that is not YAML (unwrap panics),*)
(*   fm = "none"        no delimited metadata block (yaml is None),        *)
(*   fm = "ok"          a metadata mapping `meta` followed by `content`.   *)
(* u is the value UuidB64::new() returns if it is called.                  *)
(***************************************************************************)
parse_file(f, u) ==
    CASE f.fm = "unreadable" -> [res |-> "err", doc |-> DefaultDocument]
      [] f.fm = "scanerror" -> [res |-> "panic", doc |-> DefaultDocument]
      [] f.fm = "none" -> [res |-> "err", doc |-> DefaultDocument]
      [] OTHER ->
            LET d == DeserializeDocument(f.meta)
            IN  IF ~d.ok
                THEN [res |-> "err", doc |-> DefaultDocument]
                ELSE LET d1 == [d.val EXCEPT !.filename = f.name, !.body = f.content]
                     IN  [res |-> "ok",
                          doc |-> IF width(d1.id) = 0
                                  THEN [d1 EXCEPT !.id = UuidText(u),
                                                  !.parentid = UuidText(u)]
                                  ELSE d1]

(***************************************************************************)
(* impl From<markdown_fm_doc::Document> for Document.  The legacy record   *)
(* carries author, body, date (free text), tags, title, subtitle and       *)
(* filename; Date::from_str(..).unwrap() panics on a date it cannot parse. *)
(***************************************************************************)
FromLegacyNoWrites(item, u) ==
    LET date == Date_from_str(item.date)
    IN  IF ~date.ok
        THEN [res |-> "panic", doc |-> DefaultDocument]
        ELSE [res |-> "ok",
              doc |-> [DefaultDocument EXCEPT
                          !.id = UuidText(u), !.parentid = UuidText(u),
                          !.authors = <<item.author>>, !.body = item.body,
                          !.date = date.val, !.tags = item.tags,
                          !.title = item.title, !.subtitle = item.subtitle,
                          !.filename = item.filename]]

FromLegacy(item, u) ==
    LET date == Date_from_str(item.date)
    IN  IF ~date.ok
        THEN [res |-> "panic", doc |-> DefaultDocument]
        ELSE [res |-> "ok",
              doc |-> [DefaultDocument EXCEPT
                          !.id = UuidText(u), !.parentid = UuidText(u),
                          !.authors = <<item.author>>, !.body = item.body,
                          !.date = date.val, !.writes = 1, !.tags = item.tags,
                          !.title = item.title, !.subtitle = item.subtitle,
                          !.filename = item.filename]]

(***************************************************************************)
(* impl Serialize for Document: the fields handed to the serializer, in    *)
(* order, each a name and a value.                                         *)
(***************************************************************************)
Field(n, v) == [name |-> n, val |-> v]

When(c, fs) == IF c THEN fs ELSE <<>>

SerializeBodyOnDisk(d) ==
    IF d.serialization_type = "Human"
    THEN <<>>
    ELSE <<Field("title", YStr(d.title))>>
         \o When(width(d.subtitle) > 0, <<Field("subtitle", YStr(d.subtitle))>>)
         \o (IF d.serialization_type = "Storage"
             THEN <<Field("date", YDate(d.date))>>
             ELSE <<Field("date", YStr(Date_fmt(d.date)))>>)
         \o <<Field("tags", YSeq(d.tags))>>
         \o When(d.serialization_type = "Storage", <<Field("filename", YStr(d.filename))>>)
         \o <<Field("authors", YSeq(d.authors)), Field("id", YStr(d.id)),
              Field("parentid", YStr(d.parentid)), Field("weight", YInt(d.weight)),
              Field("writes", YInt(d.writes))>>
         \o When(width(d.background_img) > 0,
                 <<Field("background_img", YStr(d.background_img))>>)
         \o When(d.links # <<>>, <<Field("links", YSeq(d.links))>>)
         \o When(width(d.slug) > 0, <<Field("slug", YStr(d.slug))>>)
         \o <<Field("body", YStr(d.body))>>

Serialize(d) ==
    IF d.serialization_type = "Human"
    THEN <<>>
    ELSE <<Field("title", YStr(d.title))>>
         \o When(width(d.subtitle) > 0, <<Field("subtitle", YStr(d.subtitle))>>)
         \o (IF d.serialization_type = "Storage"
             THEN <<Field("date", YDate(d.date))>>
             ELSE <<Field("date", YStr(Date_fmt(d.date)))>>)
         \o <<Field("tags", YSeq(d.tags))>>
         \o When(d.serialization_type = "Storage", <<Field("filename", YStr(d.filename))>>)
         \o <<Field("authors", YSeq(d.authors)), Field("id", YStr(d.id)),
              Field("parentid", YStr(d.parentid)), Field("weight", YInt(d.weight)),
              Field("writes", YInt(d.writes))>>
         \o When(width(d.background_img) > 0,
                 <<Field("background_img", YStr(d.background_img))>>)
         \o When(d.links # <<>>, <<Field("links", YSeq(d.links))>>)
         \o When(width(d.slug) > 0, <<Field("slug", YStr(d.slug))>>)
         \o When(d.serialization_type = "Storage", <<Field("body", YStr(d.body))>>)

(***************************************************************************)
(* impl fmt::Display for Document.  The output text is a sequence of       *)
(* tokens: the characters of a string, the lines serde_yaml::to_string     *)
(* writes (its document-start line, then one line per field), and the      *)
(* literal "---\n" of the format string.                                   *)
(***************************************************************************)
Ch(c) == [tok |-> "char", c |-> c]
Line(f) == [tok |-> "line", name |-> f.name, val |-> f.val]
DocStart == [tok |-> "docstart"]
Sep == [tok |-> "sep"]

Text(s) == [i \in 1..Len(s) |-> Ch(s[i])]

to_string(fs) == <<DocStart>> \o [i \in 1..Len(fs) |-> Line(fs[i])]

DisplayStorageOnly(d) ==
    CASE d.serialization_type = "Human" -> Text(d.body)
      [] d.serialization_type = "Storage" ->
            to_string(Serialize(d)) \o <<Sep>> \o Text(d.body)
      [] OTHER -> to_string(Serialize(d))

Display(d) ==
    IF d.serialization_type = "Human"
    THEN Text(d.body)
    ELSE to_string(Serialize(d)) \o <<Sep>> \o Text(d.body)

(***************************************************************************)
(* Deserializing what Serialize wrote (the index returns Storage-shaped    *)
(* records): the emitted fields form the metadata mapping, every key that  *)
(* was not emitted is absent.                                              *)
(***************************************************************************)
FieldVal(fs, n) ==
    IF \E i \in DOMAIN fs : fs[i].name = n
    THEN fs[CHOOSE i \in DOMAIN fs : fs[i].name = n].val
    ELSE Absent

MetaOf(fs) ==
    [id |-> FieldVal(fs, "id"), parentid |-> FieldVal(fs, "parentid"),
     authorsKey |-> "authors", authors |-> FieldVal(fs, "authors"),
     body |-> FieldVal(fs, "body"), date |-> FieldVal(fs, "date"),
     title |-> FieldVal(fs, "title"),
     background_img |-> FieldVal(fs, "background_img"),
     links |-> FieldVal(fs, "links"), slug |-> FieldVal(fs, "slug"),
     subtitle |-> FieldVal(fs, "subtitle"), tagsKey |-> "tags",
     tags |-> FieldVal(fs, "tags"), weight |-> FieldVal(fs, "weight"),
     writes |-> FieldVal(fs, "writes"), views |-> FieldVal(fs, "views"),
     filename |-> FieldVal(fs, "filename")]

(***************************************************************************)
(* The inputs drawn: note files and legacy records.  The metadata          *)
(* mappings vary a base mapping (title and date given) one group of keys   *)
(* at a time.                                                              *)
(***************************************************************************)
BaseMeta == [EmptyMeta EXCEPT !.title = YStr(<<"a">>), !.date = YStr("2021-01-02")]

StrVals == {YStr(s) : s \in Strs}

IdentityMetas ==
    {[BaseMeta EXCEPT !.id = i, !.parentid = p] :
        i \in {Absent} \cup StrVals, p \in {Absent, YStr(<<"a">>)}}

TagShapes ==
    {YStr(s) : s \in Items} \cup {YSeq(l) : l \in Lists} \cup {YInt(1), YNull, YBool, YMap}

TagMetas ==
    {[BaseMeta EXCEPT !.tagsKey = k, !.tags = t] : k \in {"tags", "tag"}, t \in TagShapes}

AuthorShapes == {YStr(s) : s \in Items} \cup {YSeq(l) : l \in Lists}

AuthorMetas ==
    {[BaseMeta EXCEPT !.authorsKey = k, !.authors = a] :
        k \in {"authors", "author"}, a \in AuthorShapes}

OptionalMetas ==
    {[BaseMeta EXCEPT !.subtitle = st, !.background_img = bg, !.slug = sl, !.links = ln] :
        st \in StrVals, bg \in StrVals, sl \in StrVals,
        ln \in {Absent, YSeq(<<<<"a">>>>)}}

RequiredMetas ==
    {[EmptyMeta EXCEPT !.title = t, !.date = d] :
        t \in {Absent, YStr(<<>>), YStr(<<"a">>)},
        d \in {Absent} \cup {YStr(x) : x \in DateTexts}}

CounterMetas ==
    {[BaseMeta EXCEPT !.weight = w, !.writes = wr, !.views = v] :
        w \in {Absent, YInt(1)}, wr \in {Absent, YInt(1)}, v \in {Absent, YInt(1)}}

\* A title and a scalar tag, no id, with and without a date.
ScenarioMetas ==
    {[EmptyMeta EXCEPT !.title = YStr(<<"a">>), !.tags = YStr(t), !.date = d] :
        t \in Items, d \in {Absent, YStr("2021-01-02")}}

Metas ==
    IdentityMetas \cup TagMetas \cup AuthorMetas \cup OptionalMetas
        \cup RequiredMetas \cup CounterMetas \cup ScenarioMetas

Bodies == {<<>>, <<"a">>}

NoteFiles ==
    {[fm |-> "ok", meta |-> m, content |-> c, name |-> <<"a">>] : m \in Metas, c \in Bodies}
    \cup {[fm |-> k, meta |-> EmptyMeta, content |-> <<>>, name |-> <<"a">>] :
            k \in {"unreadable", "scanerror", "none"}}

LegacyRecords ==
    [author : {<<>>, <<"a">>}, body : Bodies, date : {"2021-01-02", "not a date"},
     tags : Lists, title : {<<>>, <<"a">>}, subtitle : Strs, filename : {<<"a">>}]

Inputs ==
    {[kind |-> "file", file |-> f] : f \in NoteFiles}
    \cup {[kind |-> "legacy", item |-> r] : r \in LegacyRecords}

(***************************************************************************)
(* The document core as a state machine: one construction, the mode set    *)
(* before serialization, then Serialize / Display and the way back.        *)
(***************************************************************************)
NoOut ==
    [kind |-> "none", fields |-> <<>>, text |-> <<>>, ok |-> TRUE, doc |-> DefaultDocument]

(***************************************************************************)
(* TerminalApp and its default.  selected_state.selected() is an           *)
(* Option<usize>: an index is written as an integer, usize::MAX and its    *)
(* neighbours as -1, -2, .. (the same values modulo 2^64).  inp_widths is  *)
(* indexed from 0 in the code and from 1 here.                             *)
(***************************************************************************)
NoSel == [some |-> FALSE, i |-> 0]
Some(i) == [some |-> TRUE, i |-> i]

NoDebug == [sent |-> FALSE, q |-> <<>>, filter |-> <<>>]

DefaultApp ==
    [query_input |-> <<>>, filter_input |-> <<>>, output |-> <<>>, matches |-> <<>>,
     selected_state |-> NoSel, error |-> "", debug |-> NoDebug, inp_idx |-> 0,
     inp_widths |-> <<0, 0>>]

\* What the latest turn of the loop did with its request: the response it
\* got, and, when the request failed, the matches and the selection the key
\* had left; apc is where the turn went next.
NoTurn ==
    [kind |-> "none", hits |-> <<>>, matches |-> <<>>, selected_state |-> NoSel,
     apc |-> "idle"]

AppIdle ==
    /\ app = DefaultApp
    /\ apc = "idle"
    /\ build = "debug"
    /\ ret = <<>>
    /\ last = NoTurn

MainIdle ==
    /\ files = <<>>
    /\ idx = 0
    /\ pc = "idle"
    /\ posted = <<>>
    /\ reported = {}

Init ==
    /\ input \in Inputs
    /\ doc = DefaultDocument
    /\ res = "none"
    /\ out = NoOut
    /\ MainIdle
    /\ AppIdle

ParseFile ==
    /\ input.kind = "file"
    /\ res = "none"
    /\ \E u \in UuidPool :
          LET r == parse_file(input.file, u)
          IN  /\ res' = r.res
              /\ doc' = r.doc
    /\ UNCHANGED <<input, out, mainVars, appVars>>

ConvertLegacy ==
    /\ input.kind = "legacy"
    /\ res = "none"
    /\ \E u \in UuidPool :
          LET r == FromLegacy(input.item, u)
          IN  /\ res' = r.res
              /\ doc' = r.doc
    /\ UNCHANGED <<input, out, mainVars, appVars>>

SetMode(m) ==
    /\ res = "ok"
    /\ out.kind = "none"
    /\ doc.serialization_type = "Storage"
    /\ m # "Storage"
    /\ doc' = [doc EXCEPT !.serialization_type = m]
    /\ UNCHANGED <<input, res, out, mainVars, appVars>>

DoSerialize ==
    /\ res = "ok"
    /\ out.kind = "none"
    /\ out' = [NoOut EXCEPT !.kind = "ser", !.fields = Serialize(doc)]
    /\ UNCHANGED <<input, doc, res, mainVars, appVars>>

DoDisplay ==
    /\ res = "ok"
    /\ out.kind = "none"
    /\ out' = [NoOut EXCEPT !.kind = "text", !.text = Display(doc)]
    /\ UNCHANGED <<input, doc, res, mainVars, appVars>>

DoDeserialize ==
    /\ out.kind = "ser"
    /\ LET r == DeserializeDocument(MetaOf(out.fields))
       IN  out' = [out EXCEPT !.kind = "de", !.ok = r.ok,
                              !.doc = IF r.ok THEN r.val ELSE DefaultDocument]
    /\ UNCHANGED <<input, doc, res, mainVars, appVars>>

Next ==
    \/ ParseFile
    \/ ConvertLegacy
    \/ \E m \in SerializationTypes : SetMode(m)
    \/ DoSerialize
    \/ DoDisplay
    \/ DoDeserialize

Spec == Init /\ [][Next]_vars

(***************************************************************************)
(* main: the import loop.  An entry of the glob is a glob error, a file    *)
(* markdown_fm_doc::parse_file rejects (no metadata block, malformed tag   *)
(* field), or a file it parses into a legacy record, whose date is free    *)
(* text that only the conversion parses.                                   *)
(***************************************************************************)
BatchRecords ==
    {r \in LegacyRecords :
        /\ r.author = <<"a">>
        /\ r.body = <<"a">>
        /\ r.tags = <<>>
        /\ r.title = <<"a">>
        /\ r.subtitle = <<>>}

Entries ==
    {[kind |-> "globerr"], [kind |-> "nometa"], [kind |-> "badtags"]}
    \cup {[kind |-> "record", item |-> r] : r \in BatchRecords}

DocIdle ==
    /\ input = [kind |-> "none"]
    /\ doc = DefaultDocument
    /\ res = "none"
    /\ out = NoOut

InitImport ==
    /\ files \in SeqsUpTo(Entries, MaxFiles)
    /\ idx = 0
    /\ pc = "loop"
    /\ posted = <<>>
    /\ reported = {}
    /\ DocIdle
    /\ AppIdle

\* One iteration of the for loop over the entries (the whole match arm).
\* u is what UuidB64::new() returns, sent whether client.post(..).send() succeeds.
ImportEntryBody(e, u, sent) ==
    CASE e.kind = "globerr" ->
            [pc |-> "loop", posted |-> posted, reported |-> reported \cup {idx + 1}]
      [] e.kind \in {"nometa", "badtags"} ->
            [pc |-> "loop", posted |-> posted, reported |-> reported \cup {idx + 1}]
      [] OTHER ->
            LET r == FromLegacy(e.item, u)
            IN  IF r.res = "panic"
                THEN [pc |-> "panic", posted |-> posted, reported |-> reported]
                ELSE IF sent
                     THEN [pc |-> "loop", posted |-> Append(posted, Serialize(r.doc)),
                           reported |-> reported]
                     ELSE [pc |-> "senderr", posted |-> posted, reported |-> reported]

ImportEntry ==
    /\ pc = "loop"
    /\ idx < Len(files)
    /\ \E u \in UuidPool, sent \in BOOLEAN :
          LET r == ImportEntryBody(files[idx + 1], u, sent)
          IN  /\ pc' = r.pc
              /\ posted' = r.posted
              /\ reported' = r.reported
    /\ idx' = idx + 1
    /\ UNCHANGED <<files, docVars, appVars>>

ImportDone ==
    /\ pc = "loop"
    /\ idx = Len(files)
    /\ pc' = "done"
    /\ UNCHANGED <<files, idx, posted, reported, docVars, appVars>>

NextImport ==
    \/ ImportEntry
    \/ ImportDone

SpecImport == InitImport /\ [][NextImport]_vars

(***************************************************************************)
(* query: the interactive loop.  A hit is a Document of the response with  *)
(* the flag the loop sets on it; a response is a failure of one of the     *)
(* four kinds the loop tells apart, or a hit list.                         *)
(***************************************************************************)
InputChars == {"a"}

\* The documents of the index, in ranking order; a response carries a run of them.
Hit(k) ==
    [doc |-> [DefaultDocument EXCEPT !.id = UuidText(k), !.title = <<"a">>,
                                     !.body = <<"a">>],
     skip_serializing_body |-> FALSE]

HitRuns == {r \in (1..MaxHits) \X (0..MaxHits) : r[1] + r[2] - 1 <= MaxHits}

HitLists == {[i \in 1..r[2] |-> Hit(r[1] + i - 1)] : r \in HitRuns}

Responses ==
    {[kind |-> k, hits |-> <<>>] : k \in {"sendfail", "status", "textfail", "badjson"}}
    \cup {[kind |-> "ok", hits |-> h] : h \in HitLists}

Keys ==
    {[name |-> n, c |-> ""] :
        n \in {"Enter", "CtrlC", "Switch", "Backspace", "Down", "Up", "Other"}}
    \cup {[name |-> "Char", c |-> x] : x \in InputChars}

\* usize comparison i >= n on the integers that stand for usize values.
UGe(i, n) ==
    CASE i < 0 /\ n < 0 -> i >= n
      [] i < 0 -> TRUE
      [] n < 0 -> FALSE
      [] OTHER -> i >= n

\* self.matches.len() - 1: an overflow panic in a debug build, a wrap to
\* usize::MAX in a release build.
LenMinus1(a, b) ==
    IF Len(a.matches) = 0
    THEN [panic |-> b = "debug", val |-> -1]
    ELSE [panic |-> FALSE, val |-> Len(a.matches) - 1]

\* self.matches[i]: a panic when i is out of bounds.
InBounds(a, i) == i >= 0 /\ i < Len(a.matches)

\* TerminalApp::next
next(a, b) ==
    IF a.selected_state.some
    THEN LET m == LenMinus1(a, b)
             i == a.selected_state.i
         IN  IF m.panic
             THEN [panic |-> TRUE, app |-> a]
             ELSE [panic |-> FALSE,
                   app |-> [a EXCEPT !.selected_state =
                                Some(IF UGe(i, m.val) THEN 0 ELSE i + 1)]]
    ELSE [panic |-> FALSE, app |-> [a EXCEPT !.selected_state = Some(0)]]

\* TerminalApp::previous
previous(a, b) ==
    IF a.selected_state.some
    THEN LET i == a.selected_state.i
         IN  IF i = 0
             THEN LET m == LenMinus1(a, b)
                  IN  IF m.panic
                      THEN [panic |-> TRUE, app |-> a]
                      ELSE [panic |-> FALSE,
                            app |-> [a EXCEPT !.selected_state = Some(m.val)]]
             ELSE [panic |-> FALSE, app |-> [a EXCEPT !.selected_state = Some(i - 1)]]
    ELSE [panic |-> FALSE, app |-> [a EXCEPT !.selected_state = Some(0)]]

\* TerminalApp::get_selected_contents
get_selected_contents(a) ==
    IF a.selected_state.some
    THEN IF InBounds(a, a.selected_state.i)
         THEN [panic |-> FALSE, val |-> Display(a.matches[a.selected_state.i + 1].doc)]
         ELSE [panic |-> TRUE, val |-> <<>>]
    ELSE [panic |-> FALSE, val |-> <<>>]

\* TerminalApp::get_selected
get_selected(a) ==
    IF a.selected_state.some
    THEN IF InBounds(a, a.selected_state.i)
         THEN [panic |-> FALSE, val |-> <<a.matches[a.selected_state.i + 1].doc.id>>]
         ELSE [panic |-> TRUE, val |-> <<>>]
    ELSE [panic |-> FALSE, val |-> <<>>]

\* f.set_cursor(x + 1 + app.inp_widths[app.inp_idx] as u16, ..): a negative
\* width casts to a u16 so large that the sum overflows, which panics in a
\* debug build and wraps in a release build.
DrawPanics(a, b) == b = "debug" /\ a.inp_widths[a.inp_idx + 1] < 0

Pop(s) == IF s = <<>> THEN s ELSE SubSeq(s, 1, Len(s) - 1)

Select(r, a) ==
    IF r.panic
    THEN [ctl |-> "panic", app |-> r.app]
    ELSE LET c == get_selected_contents(r.app)
         IN  IF c.panic
             THEN [ctl |-> "panic", app |-> r.app]
             ELSE [ctl |-> "request", app |-> [r.app EXCEPT !.output = c.val]]

\* match input { .. }: what the key does to the app, and whether the loop
\* breaks, panics or goes on to the request.
HandleKey(a, k, b) ==
    CASE k.name \in {"Enter", "CtrlC"} -> [ctl |-> "break", app |-> a]
      [] k.name = "Switch" ->
            [ctl |-> "request",
             app |-> [a EXCEPT !.inp_idx = IF a.inp_idx = 1 THEN 0 ELSE 1]]
      [] k.name = "Char" ->
            [ctl |-> "request",
             app |-> IF a.inp_idx = 0
                     THEN [a EXCEPT !.query_input = Append(@, k.c),
                                    !.inp_widths[a.inp_idx + 1] = @ + 1]
                     ELSE [a EXCEPT !.filter_input = Append(@, k.c),
                                    !.inp_widths[a.inp_idx + 1] = @ + 1]]
      [] k.name = "Backspace" ->
            [ctl |-> "request",
             app |-> IF a.inp_idx = 0
                     THEN [a EXCEPT !.query_input = Pop(@),
                                    !.inp_widths[a.inp_idx + 1] = @ - 1]
                     ELSE [a EXCEPT !.filter_input = Pop(@),
                                    !.inp_widths[a.inp_idx + 1] = @ - 1]]
      [] k.name = "Down" -> Select(next(a, b), a)
      [] k.name = "Up" -> Select(previous(a, b), a)
      [] OTHER -> [ctl |-> "request", app |-> a]

\* What the loop makes of the response to its request.
HandleResponseDropMatches(a, r) ==
    CASE r.kind = "sendfail" -> [a EXCEPT !.error = "Send failed", !.matches = <<>>]
      [] r.kind = "status" -> [a EXCEPT !.error = "Request failed", !.matches = <<>>]
      [] r.kind = "textfail" -> [a EXCEPT !.error = "resp.text() failed", !.matches = <<>>]
      [] r.kind = "badjson" ->
            [a EXCEPT !.error = "Could not deserialize body", !.matches = <<>>]
      [] OTHER ->
            [a EXCEPT !.matches = [i \in DOMAIN r.hits |->
                                      [r.hits[i] EXCEPT !.skip_serializing_body = TRUE]],
                      !.error = ""]

HandleResponse(a, r) ==
    CASE r.kind = "sendfail" -> [a EXCEPT !.error = "Send failed"]
      [] r.kind = "status" -> [a EXCEPT !.error = "Request failed"]
      [] r.kind = "textfail" -> [a EXCEPT !.error = "resp.text() failed"]
      [] r.kind = "badjson" -> [a EXCEPT !.error = "Could not deserialize body"]
      [] OTHER ->
            [a EXCEPT !.matches = [i \in DOMAIN r.hits |->
                                      [r.hits[i] EXCEPT !.skip_serializing_body = TRUE]],
                      !.error = ""]

\* app.debug = serde_json::to_string(&q): the request as it is sent.
SendRequest(a) ==
    [a EXCEPT !.debug = [sent |-> TRUE, q |-> a.query_input, filter |-> a.filter_input]]

\* The model follows MaxInput characters in the two inputs together and
\* MaxUnder Backspace keys on an empty input.
Under(a) ==
    (Len(a.query_input) - a.inp_widths[1]) + (Len(a.filter_input) - a.inp_widths[2])

Followed(a, k) ==
    LET text == IF a.inp_idx = 0 THEN a.query_input ELSE a.filter_input
    IN  /\ k.name = "Char" => Len(a.query_input) + Len(a.filter_input) < MaxInput
        /\ (k.name = "Backspace" /\ text = <<>>) => Under(a) < MaxUnder

\* One turn of the loop on a key: draw, the key, the request and its response;
\* after a break, tui.clear() and app.get_selected().
Turn(a, k, r, b) ==
    IF DrawPanics(a, b)
    THEN [apc |-> "panic", app |-> a, ret |-> <<>>,
          last |-> [NoTurn EXCEPT !.apc = "panic"]]
    ELSE LET h == HandleKey(a, k, b)
         IN  CASE h.ctl = "panic" ->
                     [apc |-> "panic", app |-> h.app, ret |-> <<>>,
                      last |-> [NoTurn EXCEPT !.apc = "panic"]]
               [] h.ctl = "break" ->
                     LET g == get_selected(h.app)
                         to == IF g.panic THEN "panic" ELSE "exit"
                     IN  [apc |-> to, app |-> h.app, ret |-> g.val,
                          last |-> [NoTurn EXCEPT !.apc = to]]
               [] OTHER ->
                     [apc |-> "run", app |-> HandleResponse(SendRequest(h.app), r),
                      ret |-> <<>>,
                      last |-> IF r.kind = "ok"
                               THEN [NoTurn EXCEPT !.kind = r.kind, !.hits = r.hits,
                                                   !.apc = "run"]
                               ELSE [kind |-> r.kind, hits |-> <<>>,
                                     matches |-> h.app.matches,
                                     selected_state |-> h.app.selected_state,
                                     apc |-> "run"]]

InitApp ==
    /\ app = DefaultApp
    /\ apc = "run"
    /\ build \in {"debug", "release"}
    /\ ret = <<>>
    /\ last = NoTurn
    /\ DocIdle
    /\ MainIdle

KeyEvent ==
    /\ apc = "run"
    /\ \E k \in Keys, r \in Responses :
          /\ Followed(app, k)
          /\ LET t == Turn(app, k, r, build)
             IN  /\ app' = t.app
                 /\ apc' = t.apc
                 /\ ret' = t.ret
                 /\ last' = t.last
    /\ UNCHANGED <<build, docVars, mainVars>>

\* Event::Tick: the loop draws and handles nothing.
TickEvent ==
    /\ apc = "run"
    /\ apc' = IF DrawPanics(app, build) THEN "panic" ELSE "run"
    /\ UNCHANGED <<app, build, ret, last, docVars, mainVars>>

\* tui.draw or events.next() returns an error: the loop bails.
LoopError ==
    /\ apc = "run"
    /\ apc' = IF DrawPanics(app, build) THEN "panic" ELSE "failed"
    /\ UNCHANGED <<app, build, ret, last, docVars, mainVars>>

NextApp ==
    \/ KeyEvent
    \/ TickEvent
    \/ LoopError

SpecApp == InitApp /\ [][NextApp]_vars

(***************************************************************************)
(* Properties.                                                             *)
(***************************************************************************)
Names(fs) == {fs[i].name : i \in DOMAIN fs}

Mode == doc.serialization_type

Parsed == input.kind = "file" /\ input.file.fm = "ok" /\ res # "none"

\* The string a metadata value gives a String field ("" when the key is absent).
MetaStr(v) == IF v.kind = "str" THEN v.s ELSE <<>>

UuidTexts == {UuidText(u) : u \in UuidPool}

\* C1: serializing a Document in Disk mode never emits a filename field or a
\* body field, and rendering it in Human mode gives exactly its body.
C1_FieldPresence ==
    /\ (out.kind = "ser" /\ Mode = "Disk") =>
            /\ "filename" \notin Names(out.fields)
            /\ "body" \notin Names(out.fields)
    /\ (out.kind = "text" /\ Mode = "Human") => out.text = Text(doc.body)

C1_Witness ==
    /\ out.kind = "ser"
    /\ Mode = "Disk"
    /\ doc.body # <<>>
    /\ doc.filename # <<>>
    /\ "title" \in Names(out.fields)

\* C2: the emitted field set depends only on the mode and on the emptiness of
\* subtitle, background_img, links and slug: each of the four is emitted if and
\* only if it is non-empty, the other fields are emitted as the mode says.
C2_ExpectedNames(d) ==
    IF d.serialization_type = "Human"
    THEN {}
    ELSE {"title", "date", "tags", "authors", "id", "parentid", "weight", "writes"}
         \cup (IF d.serialization_type = "Storage" THEN {"filename", "body"} ELSE {})
         \cup (IF d.subtitle # <<>> THEN {"subtitle"} ELSE {})
         \cup (IF d.background_img # <<>> THEN {"background_img"} ELSE {})
         \cup (IF d.links # <<>> THEN {"links"} ELSE {})
         \cup (IF d.slug # <<>> THEN {"slug"} ELSE {})

C2_EmittedSet == out.kind = "ser" => Names(out.fields) = C2_ExpectedNames(doc)

\* C3: in parse_file an empty parsed id gets one fresh identifier as id and as
\* parentid; a non-empty parsed id leaves id and parentid as the metadata gave them.
C3_IdentityAssignment ==
    (Parsed /\ res = "ok") =>
        LET given == MetaStr(input.file.meta.id)
        IN  IF given = <<>>
            THEN doc.id \in UuidTexts /\ doc.parentid = doc.id /\ doc.id # <<>>
            ELSE doc.id = given /\ doc.parentid = MetaStr(input.file.meta.parentid)

\* C4: every constructed Document (parse_file that succeeded, legacy conversion)
\* has a non-empty id and a non-empty parentid.
C4_IdentityNonEmpty == res = "ok" => (doc.id # <<>> /\ doc.parentid # <<>>)

\* C5: a tags value (under `tags` or `tag`) that is one string "x" becomes ["x"],
\* a sequence stays as it is, every other shape is rejected with an error.
C5_OthersValid == DeserializeDocument([input.file.meta EXCEPT !.tags = Absent]).ok

C5_TagNormalization ==
    Parsed =>
        LET t == input.file.meta.tags
        IN  /\ t.kind = "str" => (res = "ok" => doc.tags = <<t.s>>)
            /\ t.kind = "seq" => (res = "ok" => doc.tags = t.items)
            /\ t.kind \in {"str", "seq"} /\ C5_OthersValid => res = "ok"
            /\ t.kind \notin {"str", "seq", "absent"} => res = "err"

C5_Witness ==
    /\ Parsed
    /\ res = "ok"
    /\ input.file.meta.tagsKey = "tag"
    /\ input.file.meta.tags = YStr(<<"b">>)
    /\ doc.tags = << <<"b">> >>

\* C6: deserializing the Storage serialization of a Document gives back a
\* Document equal to it in every field.
C6_RoundTrip ==
    (out.kind = "de" /\ Mode = "Storage") => (out.ok /\ out.doc = doc)

\* C7 (as claimed): Display in Storage mode is the metadata block, the separator
\* line and the body; in Disk mode it is the metadata block alone.
C7_DiskBlockOnly ==
    out.kind = "text" =>
        /\ Mode = "Storage" =>
              out.text = to_string(Serialize(doc)) \o <<Sep>> \o Text(doc.body)
        /\ Mode = "Disk" =>
              /\ out.text = to_string(Serialize(doc))
              /\ \A i \in DOMAIN out.text : out.text[i] # Sep

\* C7 (amended): in Storage mode and in Disk mode alike, Display is the metadata
\* block, then the separator line, then the body; the Disk block holds no body
\* and no filename line.
C7_BlockSepBody ==
    (out.kind = "text" /\ Mode \in {"Storage", "Disk"}) =>
        LET n == Len(out.text)
            k == n - Len(doc.body) - 1
        IN  /\ k >= 1
            /\ SubSeq(out.text, 1, k) = to_string(Serialize(doc))
            /\ out.text[k + 1] = Sep
            /\ SubSeq(out.text, k + 2, n) = Text(doc.body)
            /\ Mode = "Disk" =>
                  \A i \in 1..k : out.text[i].tok = "line" =>
                                      out.text[i].name \notin {"body", "filename"}

C7_Witness ==
    /\ out.kind = "text"
    /\ Mode = "Disk"
    /\ doc.body # <<>>
    /\ out.text[Len(out.text)] = Ch("a")

\* C8: a legacy conversion that yields a Document gives it the legacy author as
\* its one author, writes 1, one generated identifier as id and parentid, the
\* legacy title, subtitle, tags, body and filename, defaults elsewhere, mode Storage.
C8_Expected(item, id) ==
    [id |-> id, parentid |-> id, authors |-> <<item.author>>, body |-> item.body,
     serialization_type |-> "Storage", date |-> Date_from_str(item.date).val,
     title |-> item.title, background_img |-> <<>>, links |-> <<>>, slug |-> <<>>,
     subtitle |-> item.subtitle, tags |-> item.tags, weight |-> 0, writes |-> 1,
     views |-> 0, filename |-> item.filename]

C8_LegacyConversion ==
    [][(input.kind = "legacy" /\ res = "none" /\ res' = "ok") =>
          /\ doc'.id \in UuidTexts
          /\ doc'.id # <<>>
          /\ doc' = C8_Expected(input.item, doc'.id)]_vars

C8_Witness ==
    /\ input.kind = "legacy"
    /\ res = "ok"
    /\ input.item.author = <<"a">>
    /\ input.item.tags = << <<"a">>, <<"b">> >>
    /\ doc.authors = << <<"a">> >>
    /\ doc.writes = 1
    /\ doc.id = doc.parentid

\* C9: the author may be given under `author` or `authors`; given in the singular
\* form as one string "a" it is accepted and gives authors = ["a"]; a list is kept
\* as it is.
C9_OthersValid == DeserializeDocument([input.file.meta EXCEPT !.authors = Absent]).ok

C9_AuthorAliasing ==
    (Parsed /\ C9_OthersValid) =>
        LET a == input.file.meta.authors
        IN  /\ (a.kind = "str" /\ input.file.meta.authorsKey = "author") =>
                    (res = "ok" /\ doc.authors = <<a.s>>)
            /\ a.kind = "seq" => (res = "ok" /\ doc.authors = a.items)

\* C10: in the import loop a file with a per-file error (no metadata block,
\* unparsable date, malformed tag field) is reported and skipped, and the loop
\* goes on to the remaining files.
C10_PerFileError(e) ==
    \/ e.kind \in {"nometa", "badtags"}
    \/ e.kind = "record" /\ ~Date_from_str(e.item.date).ok

C10_BatchIsolation ==
    \A i \in 1..idx :
        C10_PerFileError(files[i]) =>
            /\ i \in reported
            /\ i = idx => pc \in {"loop", "done"}

\* C11: a note whose metadata block holds only a title and the scalar tag "a"
\* (no id, no date), followed by the body, parses successfully into a Document
\* with tags = ["a"], a non-empty id equal to parentid, and a Human rendering
\* that is exactly the body.
C11_IsScenario ==
    /\ Parsed
    /\ input.file.meta = [EmptyMeta EXCEPT !.title = YStr(<<"a">>), !.tags = YStr(<<"a">>)]
    /\ input.file.content = <<"a">>

C11_Scenario ==
    C11_IsScenario =>
        /\ res = "ok"
        /\ doc.tags = << <<"a">> >>
        /\ doc.id = doc.parentid
        /\ doc.id # <<>>
        /\ (out.kind = "text" /\ Mode = "Human") => out.text = Text(input.file.content)

\* C13: in every state of the interactive loop, a selection index that is
\* set is below the number of matches, so get_selected and
\* get_selected_contents never index outside matches.
C13_SelectionInBounds ==
    app.selected_state.some => InBounds(app, app.selected_state.i)

\* C14: in every state of the interactive loop inp_idx is 0 or 1, each
\* width equals the number of characters of its input, and no width is
\* negative.
C14_CursorBookkeeping ==
    /\ app.inp_idx \in {0, 1}
    /\ app.inp_widths[1] = Len(app.query_input)
    /\ app.inp_widths[2] = Len(app.filter_input)
    /\ app.inp_widths[1] >= 0
    /\ app.inp_widths[2] >= 0

\* C15: a turn of the loop whose request fails in any of the four ways leaves
\* matches and the selection as the key left them, sets a non-empty error and
\* goes on with the loop; a turn whose response deserializes replaces matches
\* by the returned hits and clears error.
C15_QueryFailureHandling ==
    /\ last.kind \in {"sendfail", "status", "textfail", "badjson"} =>
            /\ app.matches = last.matches
            /\ app.selected_state = last.selected_state
            /\ app.error # ""
            /\ last.apc = "run"
    /\ last.kind = "ok" =>
            /\ Len(app.matches) = Len(last.hits)
            /\ \A i \in DOMAIN last.hits : app.matches[i].doc = last.hits[i].doc
            /\ app.error = ""
            /\ last.apc = "run"

\* A failed request after an earlier successful one: the matches and the
\* selection are still there, the error is set, the loop is running.
C15_Witness ==
    /\ apc = "run"
    /\ last.kind = "status"
    /\ app.error # ""
    /\ Len(app.matches) > 0
    /\ app.selected_state.some

====
